---- MODULE Spec2Model ----
(***************************************************************************)
(* clixaw: the file-backed response cache (cache.py), the command history  *)
(* log (history.py) and the dangerous-command gate (cli.py).               *)
(*                                                                         *)
(* Python strings are sequences of one-character strings, so that          *)
(* concatenation, lower-casing and substring search are computed as the    *)
(* code computes them.  Python's None is the value None below.             *)
(***************************************************************************)
EXTENDS Integers, Sequences, FiniteSets, TLC

VARIABLES
    cacheFile,    \* content of <config dir>/cache.json
    cacheCfg,     \* the [cache] section of config.toml as get_cache_config reads it
    historyFile,  \* content of <config dir>/history.json
    now,          \* datetime.now()
    res,          \* the last operation: its name, arguments, return value, exception
    appended,     \* history entries appended since the last clear (history of the log)
    nAppends,     \* number of appends made in this behaviour
    pc,           \* position of the running CLI invocation
    inv           \* the running CLI invocation: its arguments and what it did so far

vars == <<cacheFile, cacheCfg, historyFile, now, res, appended, nAppends, pc, inv>>

cacheVars == <<cacheFile, cacheCfg>>
historyVars == <<historyFile, appended, nAppends>>
cliVars == <<pc, inv>>

-----------------------------------------------------------------------------
(* Bounds of the model *)

MaxTime == 2        \* the clock runs over 0..MaxTime
MaxTTL == 1         \* cache.ttl ranges over 0..MaxTTL (seconds)
MaxSizeBound == 2   \* cache.max_size ranges over 0..MaxSizeBound
MaxAppends == 3     \* history appends per behaviour
MaxRuns == 2        \* logged CLI invocations per behaviour
MaxCommandLen == 5  \* length of the commands enumerated for is_dangerous_command

-----------------------------------------------------------------------------
(* Python values *)

None == <<"None">>

Min(a, b) == IF a <= b THEN a ELSE b
Max(a, b) == IF a >= b THEN a ELSE b

\* x[-n:] for n >= 0; Python reads -0 as 0, so x[-0:] is the whole list
LastN(s, n) ==
    IF n = 0 THEN s
    ELSE SubSeq(s, Max(1, Len(s) - n + 1), Len(s))

\* x[:n] for any integer n; a negative n counts from the end
FirstN(s, n) ==
    IF n >= 0 THEN SubSeq(s, 1, Min(n, Len(s)))
    ELSE SubSeq(s, 1, Max(0, Len(s) + n))

\* list.reverse()
Reverse(s) == [i \in 1..Len(s) |-> s[Len(s) + 1 - i]]

\* datetime.isoformat() and datetime.fromisoformat(): a valid ISO-8601 string
\* carries its instant; any other string fails to parse
isoformat(t) == <<"iso", t>>
IsIso(ts) == Len(ts) = 2 /\ ts[1] = "iso"
fromisoformat(ts) == ts[2]

\* str comparison of timestamp strings as sort() makes it: "" sorts first,
\* ISO strings of one format sort by instant, text starting with a letter last
TsRank(ts) == IF ts = <<>> THEN 0 ELSE IF IsIso(ts) THEN 1 ELSE 2
TsLess(a, b) ==
    \/ TsRank(a) < TsRank(b)
    \/ IsIso(a) /\ IsIso(b) /\ fromisoformat(a) < fromisoformat(b)

-----------------------------------------------------------------------------
(* Persisted files.  kind: "missing", "nodir" (missing, and the            *)
(* configuration directory cannot be created: mkdir raises OSError),       *)
(* "unreadable" (open raises IOError), "undecodable" (bytes that are not   *)
(* UTF-8), "invalid" (text that is not JSON), "object" (a JSON object,     *)
(* items = <<key, value>> pairs in file order), "array" (a JSON array,     *)
(* items = its elements), "scalar" (a JSON number).                        *)

File(kind, items) == [kind |-> kind, items |-> items]
MissingFile == File("missing", <<>>)

\* path.exists() is False
NotExists(file) == file.kind \in {"missing", "nodir"}

\* path.parent.mkdir(parents=True, exist_ok=True) raises OSError
MkdirRaises(file) == file.kind = "nodir"

\* what json.load returns: a dict (insertion-ordered), a list or an int; on
\* bytes that are not UTF-8 it raises UnicodeDecodeError, a ValueError that is
\* neither JSONDecodeError nor IOError
PyDict(items) == [type |-> "dict", items |-> items]
PyList(items) == [type |-> "list", items |-> items]
PyInt == [type |-> "int", items |-> <<>>]
PyRaise == [type |-> "UnicodeDecodeError", items |-> <<>>]

json_load(file) ==
    CASE file.kind = "object" -> PyDict(file.items)
      [] file.kind = "array" -> PyList(file.items)
      [] file.kind = "undecodable" -> PyRaise
      [] OTHER -> PyInt

\* open(path, "w") + json.dump, once mkdir has returned: IOError is swallowed,
\* the file keeps its content
json_dump(file, value) ==
    IF file.kind = "unreadable" THEN file
    ELSE IF value.type = "dict" THEN File("object", value.items)
    ELSE File("array", value.items)

Keys(items) == {items[i][1] : i \in 1..Len(items)}
IndexOf(items, k) == CHOOSE i \in 1..Len(items) : items[i][1] = k
Without(items, k) ==
    LET i == IndexOf(items, k)
    IN SubSeq(items, 1, i - 1) \o SubSeq(items, i + 1, Len(items))

\* mutant: the entry is added without looking for the key
DictSet_NoOverwrite(items, k, v) == Append(items, <<k, v>>)

\* cache[k] = v on a dict: an existing key keeps its position
DictSet(items, k, v) ==
    IF k \in Keys(items)
    THEN [items EXCEPT ![IndexOf(items, k)] = <<k, v>>]
    ELSE Append(items, <<k, v>>)

-----------------------------------------------------------------------------
(* cache.py *)

CacheConfigs ==
    [ttl : 0..MaxTTL, max_size : 0..MaxSizeBound, enabled : BOOLEAN]

get_cache_config == cacheCfg

OrEmpty(x) == IF x = None THEN <<>> ELSE x

sha256(s) == <<"sha256", s>>

\* mutant: the API key is hashed with the other parameters
generate_cache_key_WithApiKey(query, api_url, provider, api_key, model) ==
    sha256(query \o <<"|">> \o api_url \o <<"|">> \o OrEmpty(provider)
                 \o <<"|">> \o OrEmpty(api_key) \o <<"|">> \o OrEmpty(model))

generate_cache_key(query, api_url, provider, api_key, model) ==
    sha256(query \o <<"|">> \o api_url \o <<"|">> \o OrEmpty(provider)
                 \o <<"|">> \o OrEmpty(model))

load_cache(file) ==
    IF NotExists(file) \/ file.kind \in {"unreadable", "invalid"}
    THEN PyDict(<<>>)
    ELSE json_load(file)

save_cache(file, cache) == json_dump(file, cache)

\* the outcome of an operation: the file after it, the value returned, the
\* exception that left it ("none" when it returned) and the branch taken
Outcome(file, ret, raised, path) ==
    [file |-> file, ret |-> ret, raised |-> raised, path |-> path]

\* mutant: an entry whose age equals the TTL counts as expired
get_cached_response_Exclusive(file, cfg, t, query, api_url, provider, api_key, model) ==
    IF ~cfg.enabled THEN Outcome(file, None, "none", "disabled")
    ELSE
    LET cache == load_cache(file)
        cache_key == generate_cache_key(query, api_url, provider, api_key, model)
    IN  IF cache.type = "UnicodeDecodeError"
        THEN Outcome(file, None, "UnicodeDecodeError", "raise")
        ELSE IF cache.type = "int" THEN Outcome(file, None, "TypeError", "raise")
        ELSE IF cache.type = "list" THEN Outcome(file, None, "none", "absent")
        ELSE IF cache_key \notin Keys(cache.items)
        THEN Outcome(file, None, "none", "absent")
        ELSE
        LET entry == cache.items[IndexOf(cache.items, cache_key)][2]
            removed == PyDict(Without(cache.items, cache_key))
        IN  IF ~IsIso(entry.timestamp)
            THEN Outcome(save_cache(file, removed), None, "none", "invalid")
            ELSE IF t - fromisoformat(entry.timestamp) >= cfg.ttl
            THEN Outcome(save_cache(file, removed), None, "none", "expired")
            ELSE Outcome(file, entry.command, "none", "hit")

\* mutant: an entry with an invalid timestamp is passed over but not removed
get_cached_response_KeepInvalid(file, cfg, t, query, api_url, provider, api_key, model) ==
    IF ~cfg.enabled THEN Outcome(file, None, "none", "disabled")
    ELSE
    LET cache == load_cache(file)
        cache_key == generate_cache_key(query, api_url, provider, api_key, model)
    IN  IF cache.type = "UnicodeDecodeError"
        THEN Outcome(file, None, "UnicodeDecodeError", "raise")
        ELSE IF cache.type = "int" THEN Outcome(file, None, "TypeError", "raise")
        ELSE IF cache.type = "list" THEN Outcome(file, None, "none", "absent")
        ELSE IF cache_key \notin Keys(cache.items)
        THEN Outcome(file, None, "none", "absent")
        ELSE
        LET entry == cache.items[IndexOf(cache.items, cache_key)][2]
            removed == PyDict(Without(cache.items, cache_key))
        IN  IF ~IsIso(entry.timestamp)
            THEN Outcome(file, None, "none", "invalid")
            ELSE IF t - fromisoformat(entry.timestamp) > cfg.ttl
            THEN Outcome(save_cache(file, removed), None, "none", "expired")
            ELSE Outcome(file, entry.command, "none", "hit")

\* mutant: a hit writes the entry back with the time of the lookup
get_cached_response_Touch(file, cfg, t, query, api_url, provider, api_key, model) ==
    IF ~cfg.enabled THEN Outcome(file, None, "none", "disabled")
    ELSE
    LET cache == load_cache(file)
        cache_key == generate_cache_key(query, api_url, provider, api_key, model)
    IN  IF cache.type = "UnicodeDecodeError"
        THEN Outcome(file, None, "UnicodeDecodeError", "raise")
        ELSE IF cache.type = "int" THEN Outcome(file, None, "TypeError", "raise")
        ELSE IF cache.type = "list" THEN Outcome(file, None, "none", "absent")
        ELSE IF cache_key \notin Keys(cache.items)
        THEN Outcome(file, None, "none", "absent")
        ELSE
        LET entry == cache.items[IndexOf(cache.items, cache_key)][2]
            removed == PyDict(Without(cache.items, cache_key))
            touched == PyDict([cache.items EXCEPT ![IndexOf(cache.items, cache_key)] =
                                  <<cache_key, [entry EXCEPT !.timestamp = isoformat(t)]>>])
        IN  IF ~IsIso(entry.timestamp)
            THEN Outcome(save_cache(file, removed), None, "none", "invalid")
            ELSE IF t - fromisoformat(entry.timestamp) > cfg.ttl
            THEN Outcome(save_cache(file, removed), None, "none", "expired")
            ELSE Outcome(save_cache(file, touched), entry.command, "none", "hit")

get_cached_response(file, cfg, t, query, api_url, provider, api_key, model) ==
    IF ~cfg.enabled THEN Outcome(file, None, "none", "disabled")
    ELSE
    LET cache == load_cache(file)
        cache_key == generate_cache_key(query, api_url, provider, api_key, model)
    IN  IF cache.type = "UnicodeDecodeError"
        THEN Outcome(file, None, "UnicodeDecodeError", "raise")
        ELSE IF cache.type = "int" THEN Outcome(file, None, "TypeError", "raise")
        ELSE IF cache.type = "list" THEN Outcome(file, None, "none", "absent")
        ELSE IF cache_key \notin Keys(cache.items)
        THEN Outcome(file, None, "none", "absent")
        ELSE
        LET entry == cache.items[IndexOf(cache.items, cache_key)][2]
            removed == PyDict(Without(cache.items, cache_key))
        IN  IF ~IsIso(entry.timestamp)
            THEN Outcome(save_cache(file, removed), None, "none", "invalid")
            ELSE IF t - fromisoformat(entry.timestamp) > cfg.ttl
            THEN Outcome(save_cache(file, removed), None, "none", "expired")
            ELSE Outcome(file, entry.command, "none", "hit")

\* entries.sort(key = timestamp): a stable insertion sort
RECURSIVE SortByTimestamp(_)
SortByTimestamp(items) ==
    IF Len(items) <= 1 THEN items
    ELSE
    LET n == Len(items)
        x == items[n]
        front == SortByTimestamp(SubSeq(items, 1, n - 1))
        \* x goes after every element that is not greater than it
        pos == Cardinality({i \in 1..(n - 1) :
                   ~TsLess(x[2].timestamp, front[i][2].timestamp)})
    IN  SubSeq(front, 1, pos) \o <<x>> \o SubSeq(front, pos + 1, n - 1)

Evict(items, max_size) ==
    IF Len(items) > max_size
    THEN LastN(SortByTimestamp(items), max_size)
    ELSE items

CacheEntry(t, query, command, api_url, provider, model) ==
    [timestamp |-> isoformat(t), query |-> query, command |-> command,
     api_url |-> api_url, provider |-> provider, model |-> model]

\* mutant: the store does not look at cache.enabled
set_cached_response_NoFlag(file, cfg, t, query, command, api_url, provider, api_key, model) ==
    LET cache == load_cache(file)
        cache_key == generate_cache_key(query, api_url, provider, api_key, model)
        entry == CacheEntry(t, query, command, api_url, provider, model)
    IN  IF cache.type = "UnicodeDecodeError"
        THEN Outcome(file, None, "UnicodeDecodeError", "raise")
        ELSE IF cache.type # "dict" THEN Outcome(file, None, "TypeError", "raise")
        ELSE IF MkdirRaises(file) THEN Outcome(file, None, "OSError", "raise")
        ELSE Outcome(
                save_cache(file,
                    PyDict(Evict(DictSet(cache.items, cache_key, entry), cfg.max_size))),
                None, "none", "stored")

set_cached_response(file, cfg, t, query, command, api_url, provider, api_key, model) ==
    IF ~cfg.enabled THEN Outcome(file, None, "none", "disabled")
    ELSE
    LET cache == load_cache(file)
        cache_key == generate_cache_key(query, api_url, provider, api_key, model)
        entry == CacheEntry(t, query, command, api_url, provider, model)
    IN  IF cache.type = "UnicodeDecodeError"
        THEN Outcome(file, None, "UnicodeDecodeError", "raise")
        ELSE IF cache.type # "dict" THEN Outcome(file, None, "TypeError", "raise")
        ELSE IF MkdirRaises(file) THEN Outcome(file, None, "OSError", "raise")
        ELSE Outcome(
                save_cache(file,
                    PyDict(Evict(DictSet(cache.items, cache_key, entry), cfg.max_size))),
                None, "none", "stored")

\* mutant: the file is left where it is
clear_cache_KeepFile(file) == file

\* unlink of a file of the program's own directory
clear_cache(file) ==
    IF NotExists(file) THEN file ELSE MissingFile

-----------------------------------------------------------------------------
(* history.py *)

HISTORY_MAX == 1000

\* Optional[int]: None, or an int
NoneInt == [none |-> TRUE, val |-> 0]
SomeInt(n) == [none |-> FALSE, val |-> n]

HistoryEntry(t, query, command, executed, exit_code) ==
    [timestamp |-> isoformat(t), query |-> query, command |-> command,
     executed |-> executed, exit_code |-> exit_code]

load_history(file) ==
    IF NotExists(file) \/ file.kind \in {"unreadable", "invalid"}
    THEN PyList(<<>>)
    ELSE json_load(file)

save_history(file, history) == json_dump(file, history)

\* mutant: the trimmed log keeps the first HISTORY_MAX entries
Trim_KeepOldest(history) ==
    IF Len(history) > HISTORY_MAX THEN SubSeq(history, 1, HISTORY_MAX) ELSE history

\* mutant: the log is written back untrimmed
Trim_Untrimmed(history) == history

\* history[-1000:] once the log is longer than 1000
Trim(history) ==
    IF Len(history) > HISTORY_MAX THEN LastN(history, HISTORY_MAX) ELSE history

\* mutant: the log with the new entry is not written back
add_to_history_Unsaved(file, t, query, command, executed, exit_code) ==
    Outcome(file, None, "none", "appended")

add_to_history(file, t, query, command, executed, exit_code) ==
    LET history == load_history(file)
        entry == HistoryEntry(t, query, command, executed, exit_code)
    IN  IF history.type = "UnicodeDecodeError"
        THEN Outcome(file, None, "UnicodeDecodeError", "raise")
        ELSE IF history.type # "list"
        THEN Outcome(file, None, "AttributeError", "raise")
        ELSE IF MkdirRaises(file) THEN Outcome(file, None, "OSError", "raise")
        ELSE Outcome(save_history(file, PyList(Trim(Append(history.items, entry)))),
                     None, "none", "appended")

get_history(file, limit) ==
    LET history == load_history(file)
    IN  IF history.type = "UnicodeDecodeError"
        THEN Outcome(file, None, "UnicodeDecodeError", "raise")
        ELSE IF history.type # "list"
        THEN Outcome(file, None, "AttributeError", "raise")
        ELSE Outcome(file,
                     IF limit.none THEN Reverse(history.items)
                     ELSE FirstN(Reverse(history.items), limit.val),
                     "none", "listed")

clear_history(file) ==
    IF NotExists(file) THEN file ELSE MissingFile

\* mutant: only the upper end of the range is checked, and a negative index
\* counts from the end of the list as Python's indexing does
get_history_entry_NoLowerBound(file, index) ==
    LET got == get_history(file, NoneInt)
    IN  IF got.raised # "none" THEN got
        ELSE IF index < Len(got.ret) /\ -index <= Len(got.ret)
        THEN Outcome(file,
                     got.ret[IF index >= 0 THEN index + 1 ELSE Len(got.ret) + index + 1],
                     "none", "found")
        ELSE Outcome(file, None, "none", "absent")

get_history_entry(file, index) ==
    LET got == get_history(file, NoneInt)
    IN  IF got.raised # "none" THEN got
        ELSE IF 0 <= index /\ index < Len(got.ret)
        THEN Outcome(file, got.ret[index + 1], "none", "found")
        ELSE Outcome(file, None, "none", "absent")

-----------------------------------------------------------------------------
(* cli.py: the command gate *)

DANGEROUS_PATTERNS ==
    << <<"r", "m", " ", "-", "r", "f">>,
       <<"r", "m", " ", "-", "r">>,
       <<"r", "m", " ", "-", "f">>,
       <<"r", "m", "r", "f">>,
       <<"f", "o", "r", "m", "a", "t">>,
       <<"m", "k", "f", "s">>,
       <<"d", "d", " ", "i", "f", "=">>,
       <<">", " ", "/", "d", "e", "v", "/", "s", "d">>,
       <<"s", "h", "u", "t", "d", "o", "w", "n">>,
       <<"r", "e", "b", "o", "o", "t">>,
       <<"h", "a", "l", "t">>,
       <<"p", "o", "w", "e", "r", "o", "f", "f">> >>

UPPERCASE == <<"A", "B", "C", "D", "E", "F", "G", "H", "I", "J", "K", "L", "M", "N", "O", "P", "Q", "R", "S", "T", "U", "V", "W", "X", "Y", "Z">>
LOWERCASE == <<"a", "b", "c", "d", "e", "f", "g", "h", "i", "j", "k", "l", "m", "n", "o", "p", "q", "r", "s", "t", "u", "v", "w", "x", "y", "z">>

\* str.lower() on the ASCII letters
LowerChar(c) ==
    IF \E i \in 1..Len(UPPERCASE) : UPPERCASE[i] = c
    THEN LOWERCASE[CHOOSE i \in 1..Len(UPPERCASE) : UPPERCASE[i] = c]
    ELSE c
lower(s) == [i \in 1..Len(s) |-> LowerChar(s[i])]

\* pattern in text
Contains(text, pattern) ==
    \E i \in 0..(Len(text) - Len(pattern)) :
        SubSeq(text, i + 1, i + Len(pattern)) = pattern

\* mutant: the patterns are looked for in the command as it is written
is_dangerous_command_CaseSensitive(command) ==
    \E i \in 1..Len(DANGEROUS_PATTERNS) : Contains(command, DANGEROUS_PATTERNS[i])

is_dangerous_command(command) ==
    LET command_lower == lower(command)
    IN  \E i \in 1..Len(DANGEROUS_PATTERNS) :
            Contains(command_lower, DANGEROUS_PATTERNS[i])

\* mutant: the command is run without looking at confirm or at the patterns
AfterPending_NoGate(command, confirm) == "run"

\* execute_command, on entry: prompt, or go on to run the command
AfterPending(command, confirm) ==
    IF confirm /\ is_dangerous_command(command) THEN "confirm" ELSE "run"

\* mutant: the answer to the prompt is not looked at
AfterConfirm_AnyAnswer(answer) ==
    [pc |-> "run", ret |-> NoneInt, raised |-> "none"]

\* execute_command, after click.confirm: "no" returns 1; Ctrl-C or end of
\* input at the prompt leaves the function with click's Abort
AfterConfirm(answer) ==
    CASE answer = "yes" -> [pc |-> "run", ret |-> NoneInt, raised |-> "none"]
      [] answer = "no" -> [pc |-> "return", ret |-> SomeInt(1), raised |-> "none"]
      [] OTHER -> [pc |-> "return", ret |-> NoneInt, raised |-> "Abort"]

\* execute_command, subprocess.run: the shell's return code, 130 when
\* interrupted, 1 when subprocess.run raises
AfterRun(outcome) ==
    CASE outcome.kind = "exit" -> SomeInt(outcome.code)
      [] outcome.kind = "interrupt" -> SomeInt(130)
      [] OTHER -> SomeInt(1)

\* sys.exit(code): the status the parent process reads
ProcessStatus(code) == code % 256

-----------------------------------------------------------------------------
(* config.py, and the options of cli.py: the layers of the configuration *)

Params == {"api_url", "provider", "api_key", "model"}

DEFAULT_API_URL ==
    <<"h", "t", "t", "p", "s", ":", "/", "/", "c", "m", "d", ".", "x", "a", "w", ".", "m", "e">>

\* bool(x) of an Optional[str]
Truthy(x) == x # None /\ x # <<>>

\* a or b
Or(a, b) == IF Truthy(a) THEN a ELSE b

\* s.rstrip("/")
RECURSIVE rstrip(_)
rstrip(s) ==
    IF s # <<>> /\ s[Len(s)] = "/" THEN rstrip(SubSeq(s, 1, Len(s) - 1)) ELSE s

\* config.toml as load_config returns it: the values at the root level, the
\* [provider] table and the [api] table when the file has them
ConfigToml(root, provider_table, api_table) ==
    [root |-> root, provider_table |-> provider_table, api_table |-> api_table]

NoTable == [present |-> FALSE, name |-> None, api_key |-> None, model |-> None,
            url |-> None]
ProviderTable(name, api_key, model) ==
    [present |-> TRUE, name |-> name, api_key |-> api_key, model |-> model,
     url |-> None]
ApiTable(url) ==
    [present |-> TRUE, name |-> None, api_key |-> None, model |-> None, url |-> url]

get_provider_config(config) ==
    [provider |-> IF config.provider_table.present
                  THEN config.provider_table.name ELSE config.root.provider,
     api_key |-> IF config.provider_table.present
                 THEN config.provider_table.api_key ELSE config.root.api_key,
     model |-> IF config.provider_table.present
               THEN config.provider_table.model ELSE config.root.model,
     api_url |-> IF config.api_table.present
                 THEN config.api_table.url ELSE config.root.api_url]

\* a click option with envvar: the flag when given, else the variable when it
\* is set and not empty, else the default None
ClickOption(flag, env) ==
    IF flag # None THEN flag ELSE IF Truthy(env) THEN env ELSE None

\* api.get_api_url: os.getenv("XAW_API_URL", "https://cmd.xaw.me")
get_api_url(env) ==
    IF env.api_url # None THEN env.api_url ELSE DEFAULT_API_URL

\* main: option or os.getenv(...) or config_provider.get(...)
Final(option, env, config_value) == Or(Or(option, env), config_value)

\* cli and main, then translate_query up to the request: the URL and the
\* headers the request is made with (None: the header is not sent)
EffectiveRequest(flags, env, config) ==
    LET config_provider == get_provider_config(config)
        final == [p \in Params |->
                    Final(ClickOption(flags[p], env[p]), env[p], config_provider[p])]
        api_url == IF final.api_url = None THEN get_api_url(env) ELSE final.api_url
    IN  [api_url |-> rstrip(api_url),
         provider |-> IF Truthy(final.provider) THEN final.provider ELSE None,
         api_key |-> IF Truthy(final.api_key) THEN final.api_key ELSE None,
         model |-> IF Truthy(final.model) THEN final.model ELSE None]

-----------------------------------------------------------------------------
(* api.py: translate_query.  The service answers each of the two requests *)
(* (query-parameter style, then path style) with a text, or the request    *)
(* fails (requests raises a RequestException, an HTTP error status         *)
(* included).                                                              *)

Whitespace == {" ", "\n", "\t"}

\* s.strip()
strip(s) ==
    LET kept == {i \in 1..Len(s) : s[i] \notin Whitespace}
    IN  IF kept = {} THEN <<>>
        ELSE SubSeq(s, CHOOSE i \in kept : \A j \in kept : i <= j,
                       CHOOSE i \in kept : \A j \in kept : i >= j)

Response(kind, text) == [kind |-> kind, text |-> text]

\* requests.get, raise_for_status, response.text.strip() and the test for
\* an empty command
Fetch(response) ==
    IF response.kind = "error"
    THEN [raised |-> "RequestException", command |-> <<>>]
    ELSE IF strip(response.text) = <<>>
    THEN [raised |-> "ValueError", command |-> <<>>]
    ELSE [raised |-> "none", command |-> strip(response.text)]

\* mutant: the command is cached whether or not the cache is in use
StoreIfCaching_Always(use_cache, file, cfg, t, query, command, api_url, provider, api_key, model) ==
    set_cached_response_NoFlag(file, cfg, t, query, command, api_url, provider,
                               api_key, model)

\* if use_cache: cache.set_cached_response(...)
StoreIfCaching(use_cache, file, cfg, t, query, command, api_url, provider, api_key, model) ==
    IF use_cache
    THEN set_cached_response(file, cfg, t, query, command, api_url, provider,
                             api_key, model)
    ELSE Outcome(file, None, "none", "skipped")

translate_query(file, cfg, t, query, url, provider, api_key, model, use_cache, first, second) ==
    LET api_url == rstrip(url)
        looked == IF use_cache
                  THEN get_cached_response(file, cfg, t, query, api_url, provider,
                                           api_key, model)
                  ELSE Outcome(file, None, "none", "skipped")
        got1 == Fetch(first)
        got2 == Fetch(second)
        Finish(got, path) ==
            LET stored == StoreIfCaching(use_cache, looked.file, cfg, t, query,
                                         got.command, api_url, provider, api_key, model)
            IN  IF stored.raised # "none"
                THEN Outcome(stored.file, None, stored.raised, "raise")
                ELSE Outcome(stored.file, got.command, "none", path)
    IN  IF looked.raised # "none"
        THEN Outcome(looked.file, None, looked.raised, "raise")
        ELSE IF looked.ret # None
        THEN Outcome(looked.file, looked.ret, "none", "hit")
        ELSE IF got1.raised = "none" THEN Finish(got1, "first")
        ELSE IF got1.raised = "ValueError"
        THEN Outcome(looked.file, None, "ValueError", "empty")
        ELSE IF got2.raised = "none" THEN Finish(got2, "second")
        ELSE IF got2.raised = "ValueError"
        THEN Outcome(looked.file, None, "ValueError", "empty")
        ELSE Outcome(looked.file, None, "RequestException", "failed")

-----------------------------------------------------------------------------
(* Inputs *)

S_a == <<"a">>
S_ab == <<"a", "|", "b">>
S_c == <<"c">>
S_p == <<"p">>
S_k == <<"k">>
S_j == <<"j">>
S_m == <<"m">>

Request(query, api_url, provider, api_key, model) ==
    [query |-> query, api_url |-> api_url, provider |-> provider,
     api_key |-> api_key, model |-> model]

\* three requests with three cache keys
Requests ==
    { Request(S_a, S_c, None, None, None),
      Request(S_ab, S_c, None, None, None),
      Request(S_a, S_c, S_p, None, None) }

KeyOf(r) == generate_cache_key(r.query, r.api_url, r.provider, r.api_key, r.model)

CMD_LS == <<"l", "s", " ", "-", "l", "a">>
CMD_RM == <<"s", "u", "d", "o", " ", "r", "m", " ", "-", "r", "f", " ", "/">>

CMD_REBOOT == <<"R", "E", "B", "O", "O", "T">>
REPEAT_PREFIX == <<"[", "r", "e", "p", "e", "a", "t", "]", " ">>

CacheCommands == {CMD_LS, CMD_RM}

Result(op, req, arg, out) ==
    [op |-> op, req |-> req, arg |-> arg, ret |-> out.ret, raised |-> out.raised,
     path |-> out.path]

\* an operation that returns None and takes one branch only
Returned == Outcome(MissingFile, None, "none", "done")

\* the CLI invocation: its arguments, and what it did so far
Invocation(cmd, query, command, execute, no_confirm) ==
    [cmd |-> cmd, query |-> query, command |-> command, execute |-> execute,
     no_confirm |-> no_confirm, prompted |-> FALSE, answer |-> "none",
     ran |-> FALSE, exit_code |-> NoneInt, raised |-> "none",
     logged |-> FALSE, status |-> NoneInt]

NoInvocation == Invocation("none", <<>>, <<>>, FALSE, FALSE)

NoRequest == Request(<<>>, <<>>, None, None, None)
NoResult == Result("none", NoRequest, None, Returned)

-----------------------------------------------------------------------------
(* The cache store: one action per operation of cache.py, the clock, and  *)
(* the user editing cache.enabled in config.toml between invocations.      *)

InitCache ==
    /\ cacheFile = MissingFile
    /\ cacheCfg \in CacheConfigs
    /\ historyFile = MissingFile
    /\ now = 0
    /\ res = NoResult
    /\ appended = <<>>
    /\ nAppends = 0
    /\ pc = "idle"
    /\ inv = NoInvocation

Lookup(r) ==
    LET out == get_cached_response(cacheFile, get_cache_config, now,
                   r.query, r.api_url, r.provider, r.api_key, r.model)
    IN  /\ cacheFile' = out.file
        /\ res' = Result("lookup", r, None, out)
        /\ UNCHANGED <<cacheCfg, now>>
        /\ UNCHANGED historyVars
        /\ UNCHANGED cliVars

Store(r, command) ==
    LET out == set_cached_response(cacheFile, get_cache_config, now,
                   r.query, command, r.api_url, r.provider, r.api_key, r.model)
    IN  /\ cacheFile' = out.file
        /\ res' = Result("store", r, command, out)
        /\ UNCHANGED <<cacheCfg, now>>
        /\ UNCHANGED historyVars
        /\ UNCHANGED cliVars

ClearCache ==
    /\ cacheFile' = clear_cache(cacheFile)
    /\ res' = Result("clear_cache", NoRequest, None, Returned)
    /\ UNCHANGED <<cacheCfg, now>>
    /\ UNCHANGED historyVars
    /\ UNCHANGED cliVars

SetEnabled ==
    /\ cacheCfg' = [cacheCfg EXCEPT !.enabled = ~cacheCfg.enabled]
    /\ res' = Result("config", NoRequest, None, Returned)
    /\ UNCHANGED <<cacheFile, now>>
    /\ UNCHANGED historyVars
    /\ UNCHANGED cliVars

Tick ==
    /\ now < MaxTime
    /\ now' = now + 1
    /\ UNCHANGED <<res, cacheVars, historyVars, cliVars>>

DoLookup == \E r \in Requests : Lookup(r)
DoStore == \E r \in Requests : \E c \in CacheCommands : Store(r, c)

NextCache == DoLookup \/ DoStore \/ ClearCache \/ SetEnabled \/ Tick

SpecCache == InitCache /\ [][NextCache]_vars

-----------------------------------------------------------------------------
(* The history log: one action per operation of history.py.  The log       *)
(* starts empty or as earlier appends left it, one entry short of          *)
(* HISTORY_MAX, each entry with a timestamp of its own.                    *)

EarlierLog(n) ==
    [i \in 1..n |-> HistoryEntry(i - n - 1, S_a, CMD_LS, FALSE, NoneInt)]

\* what one invocation logs: a printed command, or an executed one with its status
Logged ==
    { [query |-> S_a, command |-> CMD_LS, executed |-> FALSE, exit_code |-> NoneInt],
      [query |-> S_ab, command |-> CMD_RM, executed |-> TRUE, exit_code |-> SomeInt(1)] }

\* --limit takes any int; None is --all
Limits ==
    {NoneInt} \cup {SomeInt(n) : n \in {-1, 0, 2, HISTORY_MAX}}

\* repeat INDEX takes any int
Indices == {-1, 0, 1, HISTORY_MAX - 1, HISTORY_MAX}

InitHistory ==
    /\ \E n \in {0, HISTORY_MAX - 1} :
           /\ historyFile = (IF n = 0 THEN MissingFile ELSE File("array", EarlierLog(n)))
           /\ appended = EarlierLog(n)
    /\ cacheFile = MissingFile
    /\ cacheCfg = [ttl |-> 0, max_size |-> 0, enabled |-> FALSE]
    /\ now = 0
    /\ res = NoResult
    /\ nAppends = 0
    /\ pc = "idle"
    /\ inv = NoInvocation

AddToHistory(e) ==
    LET out == add_to_history(historyFile, now, e.query, e.command,
                              e.executed, e.exit_code)
    IN  /\ nAppends < MaxAppends
        /\ nAppends' = nAppends + 1
        /\ historyFile' = out.file
        /\ appended' = (IF out.raised = "none"
                        THEN Append(appended, HistoryEntry(now, e.query, e.command,
                                                           e.executed, e.exit_code))
                        ELSE appended)
        /\ res' = Result("append", NoRequest, None, out)
        /\ UNCHANGED <<now, cacheVars, cliVars>>

GetHistory(limit) ==
    LET out == get_history(historyFile, limit)
    IN  /\ historyFile' = out.file
        /\ res' = Result("list", NoRequest, limit, out)
        /\ UNCHANGED <<appended, nAppends, now, cacheVars, cliVars>>

GetHistoryEntry(index) ==
    LET out == get_history_entry(historyFile, index)
    IN  /\ historyFile' = out.file
        /\ res' = Result("get", NoRequest, index, out)
        /\ UNCHANGED <<appended, nAppends, now, cacheVars, cliVars>>

ClearHistory ==
    /\ historyFile' = clear_history(historyFile)
    /\ appended' = <<>>
    /\ res' = Result("clear_history", NoRequest, None, Returned)
    /\ UNCHANGED <<nAppends, now, cacheVars, cliVars>>

DoAppend == \E e \in Logged : AddToHistory(e)
DoList == \E limit \in Limits : GetHistory(limit)
DoGet == \E index \in Indices : GetHistoryEntry(index)

NextHistory == DoAppend \/ DoList \/ DoGet \/ ClearHistory

SpecHistory == InitHistory /\ [][NextHistory]_vars

-----------------------------------------------------------------------------
(* The CLI: the main command once translate_query has returned a command,  *)
(* and repeat, each through execute_command to the history log and the     *)
(* exit.  One invocation runs at a time; the prompt and the subprocess      *)
(* are the steps at which the user and the shell answer.                   *)

ServiceCommands == {CMD_LS, CMD_RM, CMD_REBOOT}
RepeatIndices == {-1, 0, 1}
Answers == {"yes", "no", "abort"}
RunOutcomes ==
    { [kind |-> "exit", code |-> 0], [kind |-> "exit", code |-> 2],
      [kind |-> "exit", code |-> -9],
      [kind |-> "interrupt", code |-> 0], [kind |-> "error", code |-> 0] }

InitGate ==
    /\ cacheFile = MissingFile
    /\ cacheCfg = [ttl |-> 0, max_size |-> 0, enabled |-> FALSE]
    /\ historyFile = MissingFile
    /\ now = 0
    /\ res = NoResult
    /\ appended = <<>>
    /\ nAppends = 0
    /\ pc = "idle"
    /\ inv = NoInvocation

Exited(i, status) == [i EXCEPT !.status = SomeInt(status)]

\* main, from the translated command to the branch on --execute
StartMain(command, execute, no_confirm) ==
    /\ pc \in {"idle", "done"}
    /\ nAppends < MaxRuns
    /\ inv' = Invocation("main", S_a, command, execute, no_confirm)
    /\ pc' = IF execute THEN "pending" ELSE "log"
    /\ UNCHANGED <<res, now, cacheVars, historyVars>>

\* repeat_command, from the history lookup to the branch on --execute
StartRepeat(index, execute, no_confirm) ==
    LET got == get_history_entry(historyFile, index)
        blank == Invocation("repeat", <<>>, <<>>, execute, no_confirm)
    IN  /\ pc \in {"idle", "done"}
        /\ nAppends < MaxRuns
        /\ IF got.path # "found"
           THEN inv' = Exited(blank, 1) /\ pc' = "done"
           ELSE LET this == Invocation("repeat", got.ret.query, got.ret.command,
                                       execute, no_confirm)
                IN  IF got.ret.command = <<>>
                    THEN inv' = Exited(this, 1) /\ pc' = "done"
                    ELSE IF execute
                    THEN inv' = this /\ pc' = "pending"
                    ELSE inv' = Exited(this, 0) /\ pc' = "done"
        /\ UNCHANGED <<res, now, cacheVars, historyVars>>

\* execute_command: the test that guards the prompt
Pending ==
    LET next == AfterPending(inv.command, ~inv.no_confirm)
    IN  /\ pc = "pending"
        /\ pc' = next
        /\ inv' = [inv EXCEPT !.prompted = (next = "confirm")]
        /\ UNCHANGED <<res, now, cacheVars, historyVars>>

\* execute_command: the user's answer to "Do you want to proceed?"; Abort
\* leaves main through its except Exception and repeat through click, both
\* with status 1
Confirm(answer) ==
    LET after == AfterConfirm(answer)
        answered == [inv EXCEPT !.answer = answer, !.exit_code = after.ret,
                                !.raised = after.raised]
    IN  /\ pc = "confirm"
        /\ IF after.raised # "none"
           THEN inv' = Exited(answered, 1) /\ pc' = "done"
           ELSE inv' = answered /\ pc' = (IF after.pc = "run" THEN "run" ELSE "log")
        /\ UNCHANGED <<res, now, cacheVars, historyVars>>

\* execute_command: subprocess.run(command, shell=True)
Run(outcome) ==
    /\ pc = "run"
    /\ inv' = [inv EXCEPT !.ran = (outcome.kind # "error"),
                          !.exit_code = AfterRun(outcome)]
    /\ pc' = "log"
    /\ UNCHANGED <<res, now, cacheVars, historyVars>>

\* add_to_history and the exit that follows it
Log ==
    LET query == IF inv.cmd = "repeat" THEN REPEAT_PREFIX \o inv.query ELSE inv.query
        out == add_to_history(historyFile, now, query, inv.command,
                              inv.execute, inv.exit_code)
    IN  /\ pc = "log"
        /\ historyFile' = out.file
        /\ IF out.raised = "none"
           THEN /\ appended' = Append(appended,
                       HistoryEntry(now, query, inv.command, inv.execute, inv.exit_code))
                /\ nAppends' = nAppends + 1
                /\ inv' = [inv EXCEPT !.logged = TRUE,
                              !.status = SomeInt(IF inv.execute
                                                 THEN ProcessStatus(inv.exit_code.val)
                                                 ELSE 0)]
           ELSE /\ UNCHANGED <<appended, nAppends>>
                /\ inv' = Exited([inv EXCEPT !.raised = out.raised], 1)
        /\ pc' = "done"
        /\ UNCHANGED <<res, now, cacheVars>>

DoStartMain ==
    \E c \in ServiceCommands : \E e, n \in BOOLEAN : StartMain(c, e, n)
DoStartRepeat ==
    \E i \in RepeatIndices : \E e, n \in BOOLEAN : StartRepeat(i, e, n)
DoConfirm == \E a \in Answers : Confirm(a)
DoRun == \E o \in RunOutcomes : Run(o)

NextGate == DoStartMain \/ DoStartRepeat \/ Pending \/ DoConfirm \/ DoRun \/ Log

SpecGate == InitGate /\ [][NextGate]_vars

\* execute_command goes on from its test, the user answers the prompt and
\* the subprocess ends
SpecGateFair ==
    SpecGate /\ WF_vars(Pending) /\ WF_vars(DoConfirm) /\ WF_vars(DoRun)

-----------------------------------------------------------------------------
(* The same operations on files the program did not write: each of the two *)
(* files starts missing, unreadable, not JSON, or JSON of any shape.       *)

AnyFile ==
    { MissingFile, File("unreadable", <<>>), File("undecodable", <<>>),
      File("invalid", <<>>), File("object", <<>>), File("array", <<>>),
      File("scalar", <<>>) }

InitCorrupt ==
    /\ cacheFile \in AnyFile
    /\ historyFile \in AnyFile
    /\ cacheCfg = [ttl |-> MaxTTL, max_size |-> MaxSizeBound, enabled |-> TRUE]
    /\ now = 0
    /\ res = NoResult
    /\ appended = <<>>
    /\ nAppends = 0
    /\ pc = "idle"
    /\ inv = NoInvocation

NextCorrupt == DoLookup \/ DoStore \/ DoAppend \/ DoList \/ DoGet

SpecCorrupt == InitCorrupt /\ [][NextCorrupt]_vars

-----------------------------------------------------------------------------
(* The CLI and the cache store on files that cannot be written: the file   *)
(* cannot be opened, or the configuration directory cannot be created.     *)

WriteFaults == {MissingFile, File("unreadable", <<>>), File("nodir", <<>>)}

FirstRequest == Request(S_a, S_c, None, None, None)

InitFaults ==
    /\ cacheFile \in WriteFaults
    /\ historyFile \in WriteFaults
    /\ MkdirRaises(cacheFile) <=> MkdirRaises(historyFile)
    /\ cacheCfg = [ttl |-> MaxTTL, max_size |-> MaxSizeBound, enabled |-> TRUE]
    /\ now = 0
    /\ res = NoResult
    /\ appended = <<>>
    /\ nAppends = 0
    /\ pc = "idle"
    /\ inv = NoInvocation

\* translate_query caching the command the service returned
StoreFirst == \E c \in CacheCommands : Store(FirstRequest, c)

NextFaults ==
    StoreFirst \/ DoStartMain \/ DoStartRepeat \/ Pending \/ DoConfirm \/ DoRun \/ Log

SpecFaults == InitFaults /\ [][NextFaults]_vars

-----------------------------------------------------------------------------
(* Lookups and listings on files whose entries carry any timestamp: none   *)
(* (entry.get("timestamp", "") is then ""), text that is not ISO-8601, or  *)
(* a valid one.                                                            *)

NOT_ISO == <<"y", "e", "s", "t", "e", "r", "d", "a", "y">>
AnyStamp == {<<>>, NOT_ISO, isoformat(0)}

Stamped(entry, ts) == [entry EXCEPT !.timestamp = ts]

SecondRequest == Request(S_ab, S_c, None, None, None)

InitStamps ==
    /\ \E t1, t2 \in AnyStamp :
        /\ cacheFile = File("object",
              << <<KeyOf(FirstRequest),
                   Stamped(CacheEntry(0, S_a, CMD_LS, S_c, None, None), t1)>>,
                 <<KeyOf(SecondRequest),
                   Stamped(CacheEntry(0, S_ab, CMD_RM, S_c, None, None), t2)>> >>)
        /\ historyFile = File("array",
              << Stamped(HistoryEntry(0, S_a, CMD_LS, FALSE, NoneInt), t1),
                 Stamped(HistoryEntry(0, S_ab, CMD_RM, TRUE, SomeInt(1)), t2) >>)
    /\ appended = historyFile.items
    /\ cacheCfg = [ttl |-> MaxTTL, max_size |-> MaxSizeBound, enabled |-> TRUE]
    /\ now = 0
    /\ res = NoResult
    /\ nAppends = 0
    /\ pc = "idle"
    /\ inv = NoInvocation

NextStamps == DoLookup \/ DoList \/ DoGet \/ Tick

SpecStamps == InitStamps /\ [][NextStamps]_vars

-----------------------------------------------------------------------------
(* The cache store under requests that carry API keys: a command is stored *)
(* by a request made with one key and looked up by requests made with the  *)
(* same key, another key or none.                                          *)

ApiKeys == {S_k, S_j}

\* two parameter tuples, each with every API key and with none
KeyedRequests ==
    { Request(S_a, S_c, p, k, S_m) : p \in {None, S_p}, k \in ApiKeys \cup {None} }

InitKeys ==
    /\ cacheFile = MissingFile
    /\ cacheCfg = [ttl |-> MaxTTL, max_size |-> MaxSizeBound, enabled |-> TRUE]
    /\ historyFile = MissingFile
    /\ now = 0
    /\ res = NoResult
    /\ appended = <<>>
    /\ nAppends = 0
    /\ pc = "idle"
    /\ inv = NoInvocation

DoLookupKeyed == \E r \in KeyedRequests : Lookup(r)
DoStoreKeyed ==
    \E r \in KeyedRequests : \E c \in CacheCommands :
        r.api_key \in ApiKeys /\ Store(r, c)

NextKeys == DoLookupKeyed \/ DoStoreKeyed \/ Tick

SpecKeys == InitKeys /\ [][NextKeys]_vars

-----------------------------------------------------------------------------
(* The layers of the configuration: one parameter at a time is given by    *)
(* any of the flag, the environment variable and the config file, each of  *)
(* them absent, empty or a value of its own; the config file holds it at   *)
(* the root level or in its table.                                         *)

NoLayer == [p \in Params |-> None]

FLAG_VALUE == <<"f", "/">>
ENV_VALUE == <<"e">>
CONFIG_VALUE == <<"c">>

Layer(p, v) == [NoLayer EXCEPT ![p] = v]

ConfigFiles(p, v) ==
    { ConfigToml(Layer(p, v), NoTable, NoTable),
      ConfigToml(NoLayer,
                 ProviderTable(Layer(p, v).provider, Layer(p, v).api_key,
                               Layer(p, v).model),
                 ApiTable(Layer(p, v).api_url)) }

\* cli -> main -> translate_query, up to the request
Resolve(flags, env, config) ==
    /\ res' = Result("resolve", NoRequest,
                     [flags |-> flags, env |-> env, config |-> config],
                     Outcome(MissingFile, EffectiveRequest(flags, env, config),
                             "none", "resolved"))
    /\ UNCHANGED <<now, cacheVars, historyVars, cliVars>>

DoResolve ==
    \E p \in Params :
    \E f \in {None, <<>>, FLAG_VALUE} :
    \E e \in {None, <<>>, ENV_VALUE} :
    \E c \in {None, <<>>, CONFIG_VALUE} :
    \E config \in ConfigFiles(p, c) :
        Resolve(Layer(p, f), Layer(p, e), config)

NextConfig == DoResolve

SpecConfig == InitGate /\ [][NextConfig]_vars

-----------------------------------------------------------------------------
(* The cache store and the history log together, each with its clear: the  *)
(* cache starts with one entry stored at the start, the log starts empty.  *)

InitClear ==
    /\ cacheFile = File("object",
            << <<KeyOf(FirstRequest), CacheEntry(0, S_a, CMD_LS, S_c, None, None)>> >>)
    /\ cacheCfg = [ttl |-> MaxTTL, max_size |-> MaxSizeBound, enabled |-> TRUE]
    /\ historyFile = MissingFile
    /\ now = 0
    /\ res = NoResult
    /\ appended = <<>>
    /\ nAppends = 0
    /\ pc = "idle"
    /\ inv = NoInvocation

NextClear ==
    \/ DoLookup \/ DoStore \/ ClearCache
    \/ DoAppend \/ DoList \/ DoGet \/ ClearHistory

SpecClear == InitClear /\ [][NextClear]_vars

-----------------------------------------------------------------------------
(* Two invocations at once.  add_to_history, set_cached_response and       *)
(* get_cached_response read the whole file, change the value in memory and *)
(* write it back, with no lock: reading is one step and writing another,   *)
(* and the steps of the two invocations interleave.  Here pc and inv are   *)
(* indexed by the invocation; inv[p] holds what invocation p does, the     *)
(* file content it read and the time it read it at.                        *)

Procs == {1, 2}

ThirdRequest == Request(S_a, S_c, S_p, None, None)

Job(op, req, command, query) ==
    [op |-> op, req |-> req, command |-> command, query |-> query]

\* invocation 1 and invocation 2 log different queries and store under
\* different keys; both may look up the entry the cache starts with
RaceJobs(p) ==
    { Job("append", NoRequest, CMD_LS, IF p = 1 THEN S_a ELSE S_ab),
      Job("store", IF p = 1 THEN ThirdRequest ELSE SecondRequest, CMD_LS, <<>>),
      Job("lookup", FirstRequest, <<>>, <<>>) }

Task(job, snapshot, t, path) ==
    [job |-> job, snapshot |-> snapshot, t |-> t, path |-> path]

NoTask == Task(Job("none", NoRequest, <<>>, <<>>), MissingFile, 0, "none")

\* the operation of a job, computed from the file content that was read
Applied(task) ==
    LET j == task.job
    IN  CASE j.op = "append" ->
                add_to_history(task.snapshot, task.t, j.query, j.command, FALSE, NoneInt)
          [] j.op = "store" ->
                set_cached_response(task.snapshot, get_cache_config, task.t,
                    j.req.query, j.command, j.req.api_url, j.req.provider,
                    j.req.api_key, j.req.model)
          [] OTHER ->
                get_cached_response(task.snapshot, get_cache_config, task.t,
                    j.req.query, j.req.api_url, j.req.provider,
                    j.req.api_key, j.req.model)

\* the branches that end in save_cache / save_history
Writes(out) == out.path \in {"appended", "stored", "invalid", "expired"}

InitRace ==
    /\ cacheFile = File("object",
            << <<KeyOf(FirstRequest), CacheEntry(0, S_a, CMD_LS, S_c, None, None)>> >>)
    /\ cacheCfg = [ttl |-> 0, max_size |-> MaxSizeBound + 1, enabled |-> TRUE]
    /\ historyFile = MissingFile
    /\ now = 0
    /\ res = NoResult
    /\ appended = <<>>
    /\ nAppends = 0
    /\ pc = [p \in Procs |-> "idle"]
    /\ inv = [p \in Procs |-> NoTask]

\* load_history() / load_cache() of invocation p, and the work in memory up
\* to the write; a lookup that has nothing to write returns here
RaceLoad(p, job) ==
    LET file == IF job.op = "append" THEN historyFile ELSE cacheFile
        task == Task(job, file, now, "none")
        out == Applied(task)
    IN  /\ pc[p] = "idle"
        /\ inv' = [inv EXCEPT ![p] = [task EXCEPT !.path = out.path]]
        /\ pc' = [pc EXCEPT ![p] = IF Writes(out) THEN "loaded" ELSE "done"]
        /\ res' = IF Writes(out) THEN res ELSE Result(job.op, job.req, p, out)
        /\ UNCHANGED <<now, cacheVars, historyVars>>

\* save_history(history) / save_cache(cache) of invocation p: the file
\* becomes what p computed from the content it read
RaceSave(p) ==
    LET job == inv[p].job
        out == Applied(inv[p])
    IN  /\ pc[p] = "loaded"
        /\ pc' = [pc EXCEPT ![p] = "done"]
        /\ res' = Result(job.op, job.req, p, out)
        /\ IF job.op = "append"
           THEN /\ historyFile' = out.file
                /\ appended' = Append(appended,
                        HistoryEntry(inv[p].t, job.query, job.command, FALSE, NoneInt))
                /\ nAppends' = nAppends + 1
                /\ UNCHANGED cacheVars
           ELSE /\ cacheFile' = out.file
                /\ UNCHANGED <<cacheCfg, historyVars>>
        /\ UNCHANGED <<now, inv>>

DoRaceLoad == \E p \in Procs : \E job \in RaceJobs(p) : RaceLoad(p, job)
DoRaceSave == \E p \in Procs : RaceSave(p)

NextRace == DoRaceLoad \/ DoRaceSave \/ Tick

SpecRace == InitRace /\ [][NextRace]_vars

-----------------------------------------------------------------------------
(* is_dangerous_command on every command of up to MaxCommandLen characters *)
(* over the letters of "rm -rf" in both cases, and on named commands.      *)

CommandAlphabet == {"r", "R", "m", "f", " ", "-"}

ShortCommands ==
    UNION {[1..n -> CommandAlphabet] : n \in 0..MaxCommandLen}

CMD_INFO == <<"c", "a", "t", " ", "I", "n", "f", "o", "r", "m", "a", "t", "i", "o", "n">>
CMD_SHUTDOWN == <<"S", "h", "u", "t", "D", "o", "w", "n", " ", "n", "o", "w">>
CMD_DD == <<"d", "d", " ", "i", "f", " ", "=", "x">>

NamedCommands == {CMD_LS, CMD_RM, CMD_REBOOT, CMD_INFO, CMD_SHUTDOWN, CMD_DD}

\* the command execute_command is called with
InitDanger ==
    /\ \E command \in ShortCommands \cup NamedCommands :
            res = Result("command", NoRequest, command, Returned)
    /\ cacheFile = MissingFile
    /\ cacheCfg = [ttl |-> 0, max_size |-> 0, enabled |-> FALSE]
    /\ historyFile = MissingFile
    /\ now = 0
    /\ appended = <<>>
    /\ nAppends = 0
    /\ pc = "idle"
    /\ inv = NoInvocation

Classify ==
    /\ res.op = "command"
    /\ res' = Result("is_dangerous", NoRequest, res.arg,
                     Outcome(MissingFile, is_dangerous_command(res.arg),
                             "none", "classified"))
    /\ UNCHANGED <<now, cacheVars, historyVars, cliVars>>

NextDanger == Classify

SpecDanger == InitDanger /\ [][NextDanger]_vars

-----------------------------------------------------------------------------
(* translate_query over the cache: requests under two keys, one of them    *)
(* also written with a trailing slash in the URL, with and without         *)
(* --no-cache, the service answering or failing on each request style.     *)

S_c_slash == <<"c", "/">>

TranslateRequests ==
    {FirstRequest, SecondRequest, Request(S_a, S_c_slash, None, None, None)}

Responses ==
    { Response("ok", <<" ">> \o CMD_LS \o <<"\n">>),
      Response("ok", <<" ", "\n">>), Response("error", <<>>) }

InitTranslate ==
    /\ cacheFile = MissingFile
    /\ \E enabled \in BOOLEAN :
            cacheCfg = [ttl |-> 1, max_size |-> MaxSizeBound, enabled |-> enabled]
    /\ historyFile = MissingFile
    /\ now = 0
    /\ res = NoResult
    /\ appended = <<>>
    /\ nAppends = 0
    /\ pc = "idle"
    /\ inv = NoInvocation

Translate(r, use_cache, first, second) ==
    LET out == translate_query(cacheFile, get_cache_config, now, r.query, r.api_url,
                   r.provider, r.api_key, r.model, use_cache, first, second)
    IN  /\ cacheFile' = out.file
        /\ res' = Result("translate", r,
                         [use_cache |-> use_cache, first |-> first, second |-> second],
                         out)
        /\ UNCHANGED <<cacheCfg, now>>
        /\ UNCHANGED historyVars
        /\ UNCHANGED cliVars

DoTranslate ==
    \E r \in TranslateRequests : \E use_cache \in BOOLEAN :
    \E first, second \in Responses :
        Translate(r, use_cache, first, second)

NextTranslate == DoTranslate \/ SetEnabled \/ Tick

SpecTranslate == InitTranslate /\ [][NextTranslate]_vars

-----------------------------------------------------------------------------
(* main as a whole: the translation (from the cache or from the service),  *)
(* then the gate, the history log and the exit.                            *)

MainResponses ==
    { Response("ok", <<" ">> \o CMD_LS \o <<"\n">>), Response("ok", CMD_RM),
      Response("ok", <<" ", "\n">>), Response("error", <<>>) }

InitMain ==
    /\ cacheFile = MissingFile
    /\ cacheCfg = [ttl |-> 1, max_size |-> MaxSizeBound, enabled |-> TRUE]
    /\ historyFile = MissingFile
    /\ now = 0
    /\ res = NoResult
    /\ appended = <<>>
    /\ nAppends = 0
    /\ pc = "idle"
    /\ inv = NoInvocation

\* main, from translate_query to the branch on --execute; an exception of
\* translate_query ends the invocation with status 1
Translated(r, use_cache, first, second, execute, no_confirm) ==
    LET out == translate_query(cacheFile, get_cache_config, now, r.query, r.api_url,
                   r.provider, r.api_key, r.model, use_cache, first, second)
        this == Invocation("main", r.query,
                           IF out.raised = "none" THEN out.ret ELSE <<>>,
                           execute, no_confirm)
    IN  /\ pc \in {"idle", "done"}
        /\ nAppends < MaxRuns
        /\ cacheFile' = out.file
        /\ res' = Result("translate", r,
                         [use_cache |-> use_cache, first |-> first, second |-> second],
                         out)
        /\ IF out.raised # "none"
           THEN inv' = Exited([this EXCEPT !.raised = out.raised], 1) /\ pc' = "done"
           ELSE inv' = this /\ pc' = (IF execute THEN "pending" ELSE "log")
        /\ UNCHANGED <<cacheCfg, now>>
        /\ UNCHANGED historyVars

DoTranslated ==
    \E use_cache, execute, no_confirm \in BOOLEAN :
    \E first, second \in MainResponses :
        Translated(FirstRequest, use_cache, first, second, execute, no_confirm)

NextMain == DoTranslated \/ Pending \/ DoConfirm \/ DoRun \/ Log

SpecMain == InitMain /\ [][NextMain]_vars

-----------------------------------------------------------------------------
(* The cache store under requests whose texts hold the separator of the    *)
(* key string: a query with a pipe in it, a URL with a pipe in it, and     *)
(* requests that differ in where the same text stands.                     *)

SEPARATOR == "|"

S_a_b == <<"a", SEPARATOR, "b">>
S_b_c == <<"b", SEPARATOR, "c">>

SeparatorRequests ==
    { Request(S_a_b, S_c, None, None, None), Request(S_a, S_b_c, None, None, None),
      Request(S_a, S_c, S_p, None, None), Request(S_a, S_c, None, None, S_p),
      FirstRequest }

DoLookupSeparator == \E r \in SeparatorRequests : Lookup(r)
DoStoreSeparator ==
    \E r \in SeparatorRequests : \E c \in CacheCommands : Store(r, c)

NextSeparator == DoLookupSeparator \/ DoStoreSeparator \/ Tick

SpecSeparator == InitKeys /\ [][NextSeparator]_vars

-----------------------------------------------------------------------------
(* Lookups and stores on a cache file that starts with two entries, each   *)
(* with any timestamp, while the clock runs past the TTL.                  *)

InitFrame ==
    /\ \E t1, t2 \in AnyStamp :
          cacheFile = File("object",
              << <<KeyOf(FirstRequest),
                   Stamped(CacheEntry(0, S_a, CMD_LS, S_c, None, None), t1)>>,
                 <<KeyOf(SecondRequest),
                   Stamped(CacheEntry(0, S_ab, CMD_RM, S_c, None, None), t2)>> >>)
    /\ cacheCfg = [ttl |-> MaxTTL, max_size |-> MaxSizeBound, enabled |-> TRUE]
    /\ historyFile = MissingFile
    /\ now = 0
    /\ res = NoResult
    /\ appended = <<>>
    /\ nAppends = 0
    /\ pc = "idle"
    /\ inv = NoInvocation

NextFrame == DoLookup \/ DoStore \/ SetEnabled \/ Tick

SpecFrame == InitFrame /\ [][NextFrame]_vars

-----------------------------------------------------------------------------
(* Appends at once on a history at its cap: the file starts empty, one     *)
(* entry short of HISTORY_MAX or with HISTORY_MAX entries; two invocations *)
(* run at a time, each reading and writing in steps of its own, and an     *)
(* invocation that has ended is followed by another.                       *)

InitCapRace ==
    /\ \E n \in {0, HISTORY_MAX - 1, HISTORY_MAX} :
           /\ historyFile = (IF n = 0 THEN MissingFile ELSE File("array", EarlierLog(n)))
           /\ appended = EarlierLog(n)
    /\ cacheFile = MissingFile
    /\ cacheCfg = [ttl |-> 0, max_size |-> 0, enabled |-> FALSE]
    /\ now = 0
    /\ res = NoResult
    /\ nAppends = 0
    /\ pc = [p \in Procs |-> "idle"]
    /\ inv = [p \in Procs |-> NoTask]

\* an invocation reads the history to append to it
DoRaceAppend ==
    \E p \in Procs : \E job \in RaceJobs(p) :
        job.op = "append" /\ nAppends < MaxAppends /\ RaceLoad(p, job)

\* the next invocation of the tool
RaceAgain(p) ==
    /\ pc[p] = "done"
    /\ pc' = [pc EXCEPT ![p] = "idle"]
    /\ inv' = [inv EXCEPT ![p] = NoTask]
    /\ UNCHANGED <<res, now, cacheVars, historyVars>>

DoRaceAgain == \E p \in Procs : RaceAgain(p)

NextCapRace == DoRaceAppend \/ DoRaceSave \/ DoRaceAgain

SpecCapRace == InitCapRace /\ [][NextCapRace]_vars

-----------------------------------------------------------------------------
(* Properties of the cache store, checked under SpecCache *)

Present(items, k) == k \in Keys(items)
EntryAt(items, k) == items[IndexOf(items, k)][2]
Age(entry) == now - fromisoformat(entry.timestamp)
Fresh(items, k) == Present(items, k) /\ Age(EntryAt(items, k)) <= cacheCfg.ttl

\* the step is operation op; the clock does not move during an operation
IsOp(op) == res'.op = op /\ now' = now

\* C1: from an empty cache, whatever max_size is configured, the persisted
\* cache never holds more than max_size entries.
C1_CacheSizeNeverExceedsMax == Len(cacheFile.items) <= cacheCfg.max_size

\* what the code keeps: the bound holds for every max_size of at least 1
CacheSizeBoundedForPositiveMax ==
    cacheCfg.max_size >= 1 => Len(cacheFile.items) <= cacheCfg.max_size

\* C3: with caching enabled, a store leaves exactly one entry for its
\* parameters, holding the stored command and the current timestamp, and a
\* lookup with the same parameters that follows it while now - timestamp <= ttl
\* returns that command.
C3_StoreThenLookup ==
    [][\A r \in Requests :
        LET k == KeyOf(r)
        IN  /\ (cacheCfg.enabled /\ IsOp("store") /\ res'.req = r) =>
                /\ Cardinality({i \in 1..Len(cacheFile'.items) :
                                   cacheFile'.items[i][1] = k}) = 1
                /\ EntryAt(cacheFile'.items, k).command = res'.arg
                /\ EntryAt(cacheFile'.items, k).timestamp = isoformat(now)
            /\ (/\ cacheCfg.enabled
                /\ res.op = "store" /\ res.req = r
                /\ IsOp("lookup") /\ res'.req = r) =>
                /\ Present(cacheFile.items, k)
                /\ Fresh(cacheFile.items, k) => res'.ret = res.arg
      ]_vars

\* C3 witness: a lookup hit on an entry stored at an earlier instant, in a
\* cache of at least two entries
C3_Witness ==
    /\ res.op = "lookup" /\ res.path = "hit"
    /\ Len(cacheFile.items) >= 2
    /\ Age(EntryAt(cacheFile.items, KeyOf(res.req))) >= 1

\* C4: with caching enabled, a lookup returns the stored command if and only
\* if the entry is present and now - timestamp <= ttl; otherwise it returns
\* None, an expired entry is removed from the file, and no operation but a
\* store adds an entry, so later lookups miss until a new store.
C4_Expiry ==
    [][/\ \A r \in Requests :
            (cacheCfg.enabled /\ IsOp("lookup") /\ res'.req = r) =>
                LET k == KeyOf(r)
                IN  /\ (res'.ret # None) <=> Fresh(cacheFile.items, k)
                    /\ Fresh(cacheFile.items, k) =>
                            res'.ret = EntryAt(cacheFile.items, k).command
                    /\ ~Fresh(cacheFile.items, k) =>
                            ~Present(cacheFile'.items, k)
       /\ ~IsOp("store") => Keys(cacheFile'.items) \subseteq Keys(cacheFile.items)
      ]_vars

\* C4 witness: a lookup found its entry older than a positive TTL and removed it
C4_Witness ==
    /\ res.op = "lookup" /\ res.path = "expired"
    /\ cacheCfg.ttl >= 1
    /\ ~Present(cacheFile.items, KeyOf(res.req))

\* the cache a store would hold before eviction has this many entries
GrownSize(items, k) == IF Present(items, k) THEN Len(items) ELSE Len(items) + 1

\* the entries of before (with the stored key renewed) that are not in after
Evicted(before, after, k) ==
    {i \in 1..Len(before) : before[i][1] # k /\ ~Present(after, before[i][1])}

EvictionKeepsNewest(r) ==
    LET k == KeyOf(r)
        before == cacheFile.items
        after == cacheFile'.items
    IN  /\ Len(after) = cacheCfg.max_size
        /\ Present(after, k)
        /\ \A i \in Evicted(before, after, k) : \A j \in 1..Len(after) :
                ~TsLess(after[j][2].timestamp, before[i][2].timestamp)

\* C5: when a store makes the cache larger than max_size, the cache after it
\* holds exactly max_size entries, no evicted entry is newer than a kept one,
\* and the entry just stored is kept.
C5_EvictionKeepsNewest ==
    [][\A r \in Requests :
        (/\ cacheCfg.enabled /\ IsOp("store") /\ res'.req = r
         /\ GrownSize(cacheFile.items, KeyOf(r)) > cacheCfg.max_size)
        => EvictionKeepsNewest(r)
      ]_vars

\* what the code keeps: the eviction contract for every max_size of at least 1
EvictionKeepsNewestForPositiveMax ==
    [][\A r \in Requests :
        (/\ cacheCfg.enabled /\ IsOp("store") /\ res'.req = r
         /\ cacheCfg.max_size >= 1
         /\ GrownSize(cacheFile.items, KeyOf(r)) > cacheCfg.max_size)
        => EvictionKeepsNewest(r)
      ]_vars

\* C9: while cache.enabled is false, a lookup returns None and a store returns
\* without effect, whatever the cache file holds, and neither changes the file.
C9_DisabledCache ==
    [][(~cacheCfg.enabled /\ (IsOp("lookup") \/ IsOp("store"))) =>
            /\ res'.ret = None
            /\ res'.raised = "none"
            /\ cacheFile' = cacheFile
      ]_vars

\* C9 witness: a lookup under the disabled flag returned None although the
\* file holds a fresh entry for its parameters
C9_Witness ==
    /\ ~cacheCfg.enabled
    /\ res.op = "lookup" /\ res.ret = None
    /\ Fresh(cacheFile.items, KeyOf(res.req))

-----------------------------------------------------------------------------
(* Properties of the history log, checked under SpecHistory *)

\* the last Min(Len(s), n) elements of s
Newest(s, n) == SubSeq(s, Len(s) - Min(Len(s), n) + 1, Len(s))

\* the persisted log, newest first
NewestFirst(file) ==
    [i \in 1..Len(file.items) |-> file.items[Len(file.items) + 1 - i]]

\* C6: the persisted history is exactly the last min(n, 1000) entries
\* appended since the last clear, in append order, so never more than 1000.
C6_HistoryCapFIFO ==
    /\ historyFile.items = Newest(appended, HISTORY_MAX)
    /\ Len(historyFile.items) <= HISTORY_MAX

\* C6 witness: an append to a full log: more than 1000 entries were appended
\* and the log holds 1000
C6_Witness ==
    /\ res.op = "append"
    /\ Len(appended) > HISTORY_MAX
    /\ Len(historyFile.items) = HISTORY_MAX

\* C7: get_history() returns the log newest first; get_history(limit), for
\* every int limit, returns the prefix of that list with the min(limit, n)
\* newest entries (none when that is not positive), never more than limit.
C7_ListNewestFirstCapped ==
    res.op = "list" =>
        LET all == NewestFirst(historyFile)
        IN  IF res.arg.none THEN res.ret = all
            ELSE /\ res.ret = SubSeq(all, 1, Min(res.arg.val, Len(all)))
                 /\ Len(res.ret) <= Max(res.arg.val, 0)

\* what the code keeps: the listing contract for --all and every limit >= 0
ListNewestFirstForNaturalLimit ==
    (res.op = "list" /\ (res.arg.none \/ res.arg.val >= 0)) =>
        LET all == NewestFirst(historyFile)
        IN  IF res.arg.none THEN res.ret = all
            ELSE /\ res.ret = SubSeq(all, 1, Min(res.arg.val, Len(all)))
                 /\ Len(res.ret) <= res.arg.val

\* C8: get_history_entry(index) returns the entry at position index of the
\* newest-first list when 0 <= index < n, None for any other int, and leaves
\* the log as it was.
C8_GetByIndex ==
    [][IsOp("get") =>
        LET all == NewestFirst(historyFile)
            index == res'.arg
        IN  /\ historyFile' = historyFile
            /\ res'.raised = "none"
            /\ IF 0 <= index /\ index < Len(all)
               THEN res'.path = "found" /\ res'.ret = all[index + 1]
               ELSE res'.path = "absent" /\ res'.ret = None
      ]_vars

\* C8 witness: index 1 returned the entry appended before the newest one
C8_Witness ==
    /\ res.op = "get" /\ res.path = "found" /\ res.arg = 1
    /\ Len(appended) >= 2
    /\ res.ret = appended[Len(appended) - 1]

-----------------------------------------------------------------------------
(* Properties of the command gate, checked under SpecGate *)

Gated == inv.execute /\ ~inv.no_confirm /\ is_dangerous_command(inv.command)

\* C2: on both paths that run a command (main and repeat with --execute,
\* without --no-confirm), a dangerous command passes the prompt before
\* anything else; it runs in a subprocess only after the answer yes; after
\* the answer no it is never run and the status is not zero.
C2_GateSafety ==
    /\ (Gated /\ pc \in {"confirm", "run", "log", "done"}) => inv.prompted
    /\ (Gated /\ (pc = "run" \/ inv.ran)) => inv.answer = "yes"
    /\ (Gated /\ inv.answer = "no") =>
            /\ ~inv.ran
            /\ pc \in {"log", "done"}
            /\ inv.exit_code = SomeInt(1)
            /\ pc = "done" => inv.status = SomeInt(1)

\* C2 witness: repeat --execute of a dangerous command from the history, the
\* user declined, and the invocation ended with status 1 without running it
C2_Witness ==
    /\ pc = "done" /\ inv.cmd = "repeat"
    /\ Gated /\ inv.prompted /\ inv.answer = "no"
    /\ ~inv.ran /\ inv.status = SomeInt(1)

-----------------------------------------------------------------------------
(* Properties of the operations on foreign files, checked under SpecCorrupt *)

\* the file is not what the program itself writes there
NotACache(file) == file.kind # "object"
NotALog(file) == file.kind # "array"

\* C10: whatever the cache file or the history file holds (missing,
\* unreadable, not JSON, JSON of another shape), lookup, store, append, list
\* and get raise nothing and return what they return on an empty store.
C10_CorruptStateIsEmpty ==
    [][/\ (IsOp("lookup") /\ NotACache(cacheFile)) =>
            res'.raised = "none" /\ res'.ret = None
       /\ (IsOp("store") /\ NotACache(cacheFile)) => res'.raised = "none"
       /\ (IsOp("append") /\ NotALog(historyFile)) => res'.raised = "none"
       /\ (IsOp("list") /\ NotALog(historyFile)) =>
            res'.raised = "none" /\ res'.ret = <<>>
       /\ (IsOp("get") /\ NotALog(historyFile)) =>
            res'.raised = "none" /\ res'.ret = None
      ]_vars

\* what the code keeps: a missing, unreadable or non-JSON file is an empty store
UnparsableStateIsEmpty ==
    [][/\ (IsOp("lookup") /\ cacheFile.kind \in {"missing", "unreadable", "invalid"}) =>
            res'.raised = "none" /\ res'.ret = None
       /\ (IsOp("store") /\ cacheFile.kind \in {"missing", "unreadable", "invalid"}) =>
            res'.raised = "none"
       /\ (IsOp("append") /\ historyFile.kind \in {"missing", "unreadable", "invalid"}) =>
            res'.raised = "none"
       /\ (IsOp("list") /\ historyFile.kind \in {"missing", "unreadable", "invalid"}) =>
            res'.raised = "none" /\ res'.ret = <<>>
       /\ (IsOp("get") /\ historyFile.kind \in {"missing", "unreadable", "invalid"}) =>
            res'.raised = "none" /\ res'.ret = None
      ]_vars

-----------------------------------------------------------------------------
(* Properties of the writes that fail, checked under SpecFaults *)

\* the status an invocation that reached add_to_history ends with when the
\* write succeeds
StatusAfterLog(i) ==
    SomeInt(IF i.execute THEN ProcessStatus(i.exit_code.val) ELSE 0)

\* C11: when the cache or the history cannot be written, for any I/O reason,
\* the failure to create the configuration directory included, store and
\* append return without raising, and the invocation that logs ends with the
\* status it has when the write succeeds.
C11_WriteFailuresSwallowed ==
    [][/\ IsOp("store") => res'.raised = "none"
       /\ (pc = "log" /\ pc' = "done") =>
                /\ inv'.raised = "none"
                /\ inv'.status = StatusAfterLog(inv)
      ]_vars

\* what the code keeps: a file that cannot be opened for writing is passed
\* over in silence, in a configuration directory that exists or can be made
OpenFailuresSwallowed ==
    [][/\ (IsOp("store") /\ ~MkdirRaises(cacheFile)) =>
                /\ res'.raised = "none"
                /\ cacheFile.kind = "unreadable" => cacheFile' = cacheFile
       /\ (pc = "log" /\ pc' = "done" /\ ~MkdirRaises(historyFile)) =>
                /\ inv'.raised = "none"
                /\ inv'.status = StatusAfterLog(inv)
      ]_vars

-----------------------------------------------------------------------------
(* Properties of entries with any timestamp, checked under SpecStamps *)

\* a lookup for a key whose entry has no valid ISO-8601 timestamp returns
\* None and removes the entry from the file
InvalidCacheEntryDiscarded ==
    \A r \in Requests :
        LET k == KeyOf(r)
        IN  (/\ IsOp("lookup") /\ res'.req = r
             /\ Present(cacheFile.items, k)
             /\ ~IsIso(EntryAt(cacheFile.items, k).timestamp)) =>
                /\ res'.ret = None
                /\ ~Present(cacheFile'.items, k)
                /\ Len(cacheFile'.items) = Len(cacheFile.items) - 1

\* C12: an entry whose timestamp is missing or not valid ISO-8601 is
\* discarded: a cache lookup on it returns None and removes it from the file,
\* and list and get of the history do not return such an entry.
C12_InvalidTimestampsDiscarded ==
    /\ [][InvalidCacheEntryDiscarded]_vars
    /\ [](/\ res.op = "list" =>
                \A i \in 1..Len(res.ret) : IsIso(res.ret[i].timestamp)
          /\ (res.op = "get" /\ res.path = "found") => IsIso(res.ret.timestamp))

\* C12 as amended: the cache discards such an entry on lookup; the history
\* keeps it, and list and get return it like any other entry.
C12_InvalidDiscardedByCacheOnly ==
    [][/\ InvalidCacheEntryDiscarded
       /\ (IsOp("list") /\ res'.arg.none) => res'.ret = NewestFirst(historyFile)
       /\ (IsOp("get") /\ 0 <= res'.arg /\ res'.arg < Len(historyFile.items)) =>
                res'.ret = NewestFirst(historyFile)[res'.arg + 1]
       /\ (IsOp("list") \/ IsOp("get")) => historyFile' = historyFile
      ]_vars

\* C12 witness: a lookup has removed an entry for its invalid timestamp, and
\* the listing returned a history entry whose timestamp is not valid
C12_Witness ==
    /\ res.op = "list"
    /\ \E i \in 1..Len(res.ret) : ~IsIso(res.ret[i].timestamp)
    /\ Len(cacheFile.items) < 2
    /\ now = 0

-----------------------------------------------------------------------------
(* Properties of the cache key, checked under SpecKeys *)

\* the two requests agree on query, api_url, provider and model
SameButApiKey(r1, r2) ==
    /\ r1.query = r2.query /\ r1.api_url = r2.api_url
    /\ r1.provider = r2.provider /\ r1.model = r2.model

\* C13: requests that differ only in api_key have the same cache key, so the
\* command stored by a request made with one API key is what a lookup made
\* with another API key, or with none, returns while the entry is fresh.
C13_KeyIgnoresApiKey ==
    /\ [](\A r1, r2 \in KeyedRequests :
            SameButApiKey(r1, r2) => KeyOf(r1) = KeyOf(r2))
    /\ [][(/\ res.op = "store" /\ IsOp("lookup")
           /\ SameButApiKey(res.req, res'.req)
           /\ Fresh(cacheFile.items, KeyOf(res.req))) =>
                /\ res'.path = "hit"
                /\ res'.ret = res.arg
         ]_vars

\* C13 witness: a lookup made without an API key returned a command, which
\* only requests that carry an API key have stored
C13_Witness ==
    /\ res.op = "lookup" /\ res.path = "hit"
    /\ res.req.api_key = None
    /\ res.ret \in CacheCommands

-----------------------------------------------------------------------------
(* Properties of the exit status, checked under SpecGate *)

\* the status the contract gives to each way subprocess.run can end
RunStatus(outcome) ==
    CASE outcome.kind = "exit" -> outcome.code
      [] outcome.kind = "interrupt" -> 130
      [] OTHER -> 1

\* execute_command returns RunStatus of the way the subprocess ended
ReturnsRunStatus ==
    \A o \in RunOutcomes : Run(o) => inv'.exit_code = SomeInt(RunStatus(o))

\* the step from add_to_history to the exit of an invocation that executes
ExitsAfterExecute == pc = "log" /\ pc' = "done" /\ inv.execute

\* C14: execute_command returns the subprocess's exit status, 130 when the
\* execution is interrupted and 1 on any other error, and with --execute the
\* exit status of the process equals the status execute_command returned.
C14_ExitStatus ==
    [][/\ ReturnsRunStatus
       /\ ExitsAfterExecute => inv'.status = inv.exit_code
      ]_vars

\* what the code keeps: the process ends with the low byte of the returned
\* status, which is the returned status when that is in 0..255
ExitStatusLowByte ==
    [][/\ ReturnsRunStatus
       /\ ExitsAfterExecute =>
                /\ inv'.status = SomeInt(inv.exit_code.val % 256)
                /\ inv.exit_code.val \in 0..255 => inv'.status = inv.exit_code
      ]_vars

-----------------------------------------------------------------------------
(* The states of execute_command, checked under SpecGateFair: PENDING is   *)
(* pc = "pending", CONFIRM is pc = "confirm", RUN is pc = "run", and the   *)
(* terminal states are read off the invocation once execute_command is     *)
(* left.                                                                   *)

\* the invocation has called execute_command and left it
LeftGate == inv.execute /\ inv.command # <<>> /\ pc \in {"log", "done"}

ABORT == LeftGate /\ inv.prompted /\ inv.answer \in {"no", "abort"} /\ ~inv.ran
SUCCESS == LeftGate /\ inv.ran /\ inv.exit_code = SomeInt(0)
FAILURE ==
    /\ LeftGate /\ inv.answer \notin {"no", "abort"}
    /\ ~inv.exit_code.none /\ inv.exit_code.val # 0

ExactlyOneTerminal ==
    /\ ABORT \/ SUCCESS \/ FAILURE
    /\ ~(ABORT /\ SUCCESS) /\ ~(ABORT /\ FAILURE) /\ ~(SUCCESS /\ FAILURE)

GateSteps ==
    /\ pc = "pending" =>
            /\ pc' \in {"pending", "confirm", "run"}
            /\ pc' = "confirm" <=>
                    (pc' # pc /\ ~inv.no_confirm /\ is_dangerous_command(inv.command))
            /\ pc' = "run" => ~inv'.prompted
    /\ (pc' = "confirm" /\ pc # "confirm") => pc = "pending"
    /\ (pc' = "run" /\ pc # "run") =>
            \/ pc = "pending"
            \/ pc = "confirm" /\ inv'.answer = "yes"
    /\ inv.answer \in {"no", "abort"} => pc' \notin {"confirm", "run"}
    /\ pc \in {"confirm", "run"} => pc' \in {pc, "log", "done"} \/ pc' = "run"
    /\ (LeftGate /\ pc = "log" /\ pc' = "done") =>
            /\ ABORT' <=> ABORT
            /\ SUCCESS' <=> SUCCESS
            /\ FAILURE' <=> FAILURE

\* C15: execute_command goes from PENDING to CONFIRM exactly when confirm is
\* true and the command is dangerous, otherwise to RUN without a prompt; RUN
\* is entered from PENDING or after the answer yes, never after ABORT; and
\* when the user answers and the subprocess ends, every invocation reaches
\* exactly one of ABORT, SUCCESS, FAILURE.
C15_GateStateMachine ==
    /\ [][GateSteps]_vars
    /\ [](LeftGate => ExactlyOneTerminal)
    /\ (pc = "pending") ~> LeftGate

\* C15 witness: a dangerous command passed the prompt with the answer yes,
\* ran, and ended in FAILURE
C15_Witness ==
    /\ pc = "done" /\ inv.cmd = "main"
    /\ inv.prompted /\ inv.answer = "yes" /\ inv.ran
    /\ FAILURE /\ inv.exit_code = SomeInt(2)

-----------------------------------------------------------------------------
(* Properties of the configuration layers, checked under SpecConfig *)

\* the first of flag, environment and config file that supplies a value (a
\* string that is not empty), else the default
Layered(flag, env, config_value, default) ==
    IF Truthy(flag) THEN flag
    ELSE IF Truthy(env) THEN env
    ELSE IF Truthy(config_value) THEN config_value
    ELSE default

LayeredRequest(arg) ==
    LET c == get_provider_config(arg.config)
    IN  [api_url |-> rstrip(Layered(arg.flags.api_url, arg.env.api_url, c.api_url,
                                    DEFAULT_API_URL)),
         provider |-> Layered(arg.flags.provider, arg.env.provider, c.provider, None),
         api_key |-> Layered(arg.flags.api_key, arg.env.api_key, c.api_key, None),
         model |-> Layered(arg.flags.model, arg.env.model, c.model, None)]

\* some layer holds an empty string for the API URL
EmptyApiUrl(arg) ==
    \/ arg.flags.api_url = <<>>
    \/ arg.env.api_url = <<>>
    \/ get_provider_config(arg.config).api_url = <<>>

\* C16: each of api_url, provider, api_key and model is taken from the flag
\* when it gives a value, else from the environment variable, else from the
\* config file, else it is the default (https://cmd.xaw.me for api_url, none
\* for the others); a lower layer is never used over a higher one.
C16_LayeredConfig ==
    res.op = "resolve" => res.ret = LayeredRequest(res.arg)

\* what the code keeps: the layering of provider, api_key and model, and of
\* api_url when no layer holds an empty string for it
LayeredButEmptyApiUrl ==
    res.op = "resolve" =>
        /\ res.ret.provider = LayeredRequest(res.arg).provider
        /\ res.ret.api_key = LayeredRequest(res.arg).api_key
        /\ res.ret.model = LayeredRequest(res.arg).model
        /\ ~EmptyApiUrl(res.arg) => res.ret.api_url = LayeredRequest(res.arg).api_url

-----------------------------------------------------------------------------
(* Properties of clear, checked under SpecClear *)

-----------------------------------------------------------------------------
(* Properties of two invocations at once, checked under SpecRace *)

BothDone == \A p \in Procs : pc[p] = "done"
BothDo(op) == \A p \in Procs : inv[p].job.op = op

\* both invocations read the same file content: each read before the other wrote
SawSame == inv[1].snapshot = inv[2].snapshot

\* invocation p looked up the expired entry and q stored
ExpiredLookupAndStore(p, q) ==
    /\ inv[p].job.op = "lookup" /\ inv[p].path = "expired"
    /\ inv[q].job.op = "store"

\* C18: nothing orders the read and the write of one invocation against
\* those of the other, and the last write wins: after two appends the log
\* ends with the entry written last, and holds one new entry, not two,
\* exactly when both appends read the log before either wrote it; after two
\* stores under different keys one key is missing exactly in that case; and
\* a lookup that removes an expired entry while a store is under way loses
\* the stored entry or brings the removed one back.
C18_LastWriteWins ==
    /\ (BothDone /\ BothDo("append")) =>
            /\ Len(appended) = 2
            /\ Len(historyFile.items) = (IF SawSame THEN 1 ELSE 2)
            /\ historyFile.items[Len(historyFile.items)] = appended[2]
    /\ (BothDone /\ BothDo("store")) =>
            LET k1 == KeyOf(inv[1].job.req)
                k2 == KeyOf(inv[2].job.req)
            IN  /\ Present(cacheFile.items, k1) \/ Present(cacheFile.items, k2)
                /\ (Present(cacheFile.items, k1) /\ Present(cacheFile.items, k2))
                        <=> ~SawSame
    /\ \A p, q \in Procs :
            (BothDone /\ ExpiredLookupAndStore(p, q)) =>
                LET k0 == KeyOf(inv[p].job.req)
                    kq == KeyOf(inv[q].job.req)
                IN  IF SawSame
                    THEN Keys(cacheFile.items) \in {{}, {k0, kq}}
                    ELSE Keys(cacheFile.items) = {kq}

\* C18 witness: two appends were made and the log holds one entry
C18_Witness ==
    /\ BothDone /\ BothDo("append")
    /\ Len(appended) = 2
    /\ Len(historyFile.items) = 1

\* a store was lost to a lookup that removed an expired entry
StoreLostToLookup ==
    \E p, q \in Procs :
        /\ BothDone /\ ExpiredLookupAndStore(p, q)
        /\ Keys(cacheFile.items) = {}

-----------------------------------------------------------------------------
(* Properties of is_dangerous_command, checked under SpecDanger *)

\* text is some prefix, then pattern, then some suffix
IsSubstring(pattern, text) ==
    \E a, b \in 0..Len(text) :
        /\ a <= b
        /\ text = SubSeq(text, 1, a) \o pattern \o SubSeq(text, b + 1, Len(text))

UpperChar(c) ==
    IF \E i \in 1..Len(LOWERCASE) : LOWERCASE[i] = c
    THEN UPPERCASE[CHOOSE i \in 1..Len(LOWERCASE) : LOWERCASE[i] = c]
    ELSE c
upper(s) == [i \in 1..Len(s) |-> UpperChar(s[i])]

\* C19: is_dangerous_command(command) is true exactly when the lower-cased
\* command has a pattern of DANGEROUS_PATTERNS as a substring; writing the
\* command in upper or lower case does not change the result; it is true of
\* "sudo rm -rf /" and false of "ls -la".
C19_DangerousDetection ==
    /\ res.op = "is_dangerous" =>
            /\ res.ret <=> \E i \in 1..Len(DANGEROUS_PATTERNS) :
                               IsSubstring(DANGEROUS_PATTERNS[i], lower(res.arg))
            /\ res.ret = is_dangerous_command(upper(res.arg))
            /\ res.ret = is_dangerous_command(lower(res.arg))
            /\ res.arg = CMD_RM => res.ret
            /\ res.arg = CMD_LS => ~res.ret
    /\ Len(DANGEROUS_PATTERNS) = 12

\* C19 witness: a command written partly in capitals was found dangerous
C19_Witness ==
    /\ res.op = "is_dangerous" /\ res.ret = TRUE
    /\ res.arg \in ShortCommands
    /\ res.arg # lower(res.arg) /\ res.arg # upper(res.arg)

-----------------------------------------------------------------------------
(* The cache entry of a translation, checked under SpecTranslate *)

\* the key under which translate_query looks request r up and stores it
TranslateKey(r) ==
    generate_cache_key(r.query, rstrip(r.api_url), r.provider, r.api_key, r.model)

\* the step wrote a new entry under key k
Stored(k) ==
    /\ Present(cacheFile'.items, k)
    /\ Present(cacheFile.items, k) =>
           EntryAt(cacheFile'.items, k) # EntryAt(cacheFile.items, k)

TranslationFailed == res'.raised \in {"ValueError", "RequestException"}

\* C20: a translation adds an entry to the cache only when caching is in
\* use (use_cache true and the cache enabled), the lookup missed and the
\* service returned a non-empty command, and then only under the request's
\* own key and with that command; on a cache hit the cached command is
\* returned before any request is sent; when the translation fails (both
\* request styles fail, or the response is empty) or use_cache is false
\* (--no-cache), no entry is added
C20_EntryLifecycle ==
    [][\A r \in TranslateRequests :
         (IsOp("translate") /\ res'.req = r) =>
             LET k == TranslateKey(r)
                 use_cache == res'.arg.use_cache
             IN  /\ \A other \in Keys(cacheFile'.items) \ {k} :
                        /\ Present(cacheFile.items, other)
                        /\ EntryAt(cacheFile'.items, other) =
                               EntryAt(cacheFile.items, other)
                 /\ Stored(k) =>
                        /\ use_cache
                        /\ cacheCfg.enabled
                        /\ ~Fresh(cacheFile.items, k)
                        /\ res'.path \in {"first", "second"}
                        /\ res'.ret # <<>>
                        /\ EntryAt(cacheFile'.items, k).command = res'.ret
                 /\ (use_cache /\ cacheCfg.enabled /\ Fresh(cacheFile.items, k)) =>
                        /\ res'.path = "hit"
                        /\ res'.ret = EntryAt(cacheFile.items, k).command
                        /\ cacheFile' = cacheFile
                 /\ (TranslationFailed \/ ~use_cache) => ~Stored(k)]_vars

\* C20 witness: the lookup missed, the first request failed, the second
\* returned a padded command, and the stripped command is now cached under
\* the key of the URL without its trailing slash
C20_Witness ==
    /\ res.op = "translate"
    /\ res.path = "second"
    /\ res.arg.use_cache
    /\ res.req.api_url = S_c_slash
    /\ res.ret = CMD_LS
    /\ Present(cacheFile.items, KeyOf(FirstRequest))
    /\ EntryAt(cacheFile.items, KeyOf(FirstRequest)).command = CMD_LS

-----------------------------------------------------------------------------
(* The history entry of an invocation of main, checked under SpecMain *)

\* the invocation of main has exited
MainExited == inv.cmd = "main" /\ inv.status # NoneInt

\* the entry the invocation has to leave: what was asked, what was obtained,
\* and the outcome of execute_command when --execute was given
EntryOf(i, e) ==
    /\ e.query = i.query
    /\ e.command = i.command
    /\ e.executed = i.execute
    /\ e.exit_code = (IF i.execute THEN i.exit_code ELSE NoneInt)

\* the log grows only by the one entry of the running invocation, which has
\* not logged and not exited before
AppendsOwnEntryOnce ==
    (nAppends' # nAppends \/ historyFile' # historyFile) =>
        /\ inv.cmd = "main" /\ inv.command # <<>>
        /\ ~inv.logged /\ inv.status = NoneInt
        /\ inv'.logged
        /\ nAppends' = nAppends + 1
        /\ Len(historyFile'.items) = Len(historyFile.items) + 1
        /\ SubSeq(historyFile'.items, 1, Len(historyFile.items)) = historyFile.items
        /\ EntryOf(inv, historyFile'.items[Len(historyFile'.items)])

\* C21: every invocation of main that obtains a command appends exactly one
\* history entry before it exits, executed=false with no exit code when the
\* command is only printed and executed=true with the status returned by
\* execute_command under --execute; an invocation whose translation fails
\* appends none
C21_OneEntryPerInvocation ==
    /\ [][AppendsOwnEntryOnce]_vars
    /\ [](MainExited => (inv.logged <=> res.raised = "none"))

\* what the code keeps: the same, but for the invocation whose prompt was
\* ended by Ctrl-C or end of input, which exits without an entry
OneEntryUnlessPromptAborted ==
    /\ [][AppendsOwnEntryOnce]_vars
    /\ [](MainExited =>
            (inv.logged <=> (res.raised = "none" /\ inv.answer # "abort")))

\* an invocation with --execute obtained a dangerous command, the prompt
\* was ended by Ctrl-C or end of input, and it exited without an entry
PromptAbortedUnlogged ==
    /\ MainExited
    /\ res.raised = "none" /\ inv.command = CMD_RM
    /\ inv.answer = "abort"
    /\ ~inv.logged

-----------------------------------------------------------------------------
(* The cache key as a name of the request, checked under SpecSeparator *)

\* what a lookup for request r returns in the given cache file
Cached(file, r) ==
    get_cached_response(file, get_cache_config, now, r.query, r.api_url,
                        r.provider, r.api_key, r.model).ret

\* a store for one request leaves what a lookup returns for every request
\* with another query, URL, provider or model as it was, or evicts it
StoreKeepsOthers(requests) ==
    IsOp("store") =>
        \A r \in requests :
            ~SameButApiKey(res'.req, r) =>
                Cached(cacheFile', r) \in {Cached(cacheFile, r), None}

NoSeparator(r) ==
    \A s \in {r.query, r.api_url, OrEmpty(r.provider), OrEmpty(r.model)} :
        \A i \in 1..Len(s) : s[i] # SEPARATOR

\* C22: two requests whose (query, api_url, provider, model) differ never
\* share a cache key, so a lookup never returns a command that was stored
\* for a different query, URL, provider or model
C22_KeyInjective ==
    /\ [](\A r1, r2 \in SeparatorRequests :
            ~SameButApiKey(r1, r2) => KeyOf(r1) # KeyOf(r2))
    /\ [][StoreKeepsOthers(SeparatorRequests)]_vars

PlainRequests == {r \in SeparatorRequests : NoSeparator(r)}

\* what the code keeps: the same among requests with no pipe in their texts
KeyInjectiveWithoutSeparator ==
    /\ [](\A r1, r2 \in PlainRequests :
            ~SameButApiKey(r1, r2) => KeyOf(r1) # KeyOf(r2))
    /\ [][NoSeparator(res'.req) => StoreKeepsOthers(PlainRequests)]_vars

\* a lookup for the query "a" at the URL "b|c" returned the command stored
\* for the query "a|b" at the URL "c"
ForeignCommandReturned ==
    /\ res.op = "lookup" /\ res.path = "hit"
    /\ res.req.api_url = S_b_c
    /\ \E i \in 1..Len(cacheFile.items) :
            /\ cacheFile.items[i][1] = KeyOf(res.req)
            /\ cacheFile.items[i][2].query = S_a_b

-----------------------------------------------------------------------------
(* The executed flag of a logged entry, checked under SpecGate *)

\* the step appended the invocation's entry to the history
LogStep == pc = "log" /\ inv'.logged

LastLogged == historyFile'.items[Len(historyFile'.items)]

\* execute_command reached subprocess.run; a subprocess.run that raises is
\* counted as a run of the command
ReachedSubprocess(i) == i.execute /\ i.answer \in {"none", "yes"}

\* C23: a history entry has executed=true only if its command was run in a
\* subprocess during the invocation that logged it; an invocation in which
\* the user declined the confirmation leaves no entry with executed=true
C23_TruthfulExecuted ==
    [][LogStep =>
          /\ LastLogged.executed => ReachedSubprocess(inv)
          /\ inv.answer = "no" => ~LastLogged.executed]_vars

\* what the code keeps: executed is the --execute flag of the invocation,
\* true for every command that ran, and true without a run only for a
\* declined prompt, then with exit code 1
ExecutedIsExecuteFlag ==
    [][LogStep =>
          /\ LastLogged.executed = inv.execute
          /\ inv.ran => LastLogged.executed
          /\ (LastLogged.executed /\ ~ReachedSubprocess(inv)) =>
                /\ inv.answer = "no"
                /\ ~inv.ran
                /\ LastLogged.exit_code = SomeInt(1)]_vars

\* the user declined the prompt, nothing ran, and the entry of the
\* invocation says executed=true
DeclinedLoggedExecuted ==
    /\ inv.logged /\ inv.answer = "no" /\ ~inv.ran
    /\ Len(historyFile.items) > 0
    /\ historyFile.items[Len(historyFile.items)].executed
    /\ historyFile.items[Len(historyFile.items)].command = inv.command

-----------------------------------------------------------------------------
(* The frame of a lookup, checked under SpecFrame *)

\* the entry under k is there and the lookup has to drop it: its timestamp
\* is not a valid one, or it was stored more than ttl ago
Stale(items, k) ==
    /\ Present(items, k)
    /\ \/ ~IsIso(EntryAt(items, k).timestamp)
       \/ Age(EntryAt(items, k)) > cacheCfg.ttl

\* the entry under k is there, valid, and stored at most ttl ago
Live(items, k) ==
    /\ Present(items, k)
    /\ IsIso(EntryAt(items, k).timestamp)
    /\ Age(EntryAt(items, k)) <= cacheCfg.ttl

\* C24: a lookup that hits returns the entry's command and leaves the cache
\* file as it is, the entry's timestamp included, so the entry is served
\* exactly until ttl after its store; a lookup for an absent key, or with
\* the cache disabled, changes nothing; a lookup that finds an expired
\* entry or one with an invalid timestamp removes that key and leaves every
\* other entry, expired ones included, as it is and in its place
C24_LookupFrame ==
    [][\A r \in Requests :
         (IsOp("lookup") /\ res'.req = r) =>
            LET k == KeyOf(r)
                items == cacheFile.items
            IN  /\ (cacheCfg.enabled /\ Live(items, k)) =>
                      /\ res'.path = "hit"
                      /\ res'.ret = EntryAt(items, k).command
                      /\ cacheFile' = cacheFile
                /\ (~cacheCfg.enabled \/ ~Present(items, k)) =>
                      /\ res'.ret = None
                      /\ cacheFile' = cacheFile
                /\ (cacheCfg.enabled /\ Stale(items, k)) =>
                      /\ res'.ret = None
                      /\ cacheFile'.items =
                            SelectSeq(items, LAMBDA item : item[1] # k)]_vars

\* C24 witness: a lookup found its entry expired and removed it, and the
\* other entry, itself expired, is still in the file
C24_Witness ==
    /\ res.op = "lookup" /\ res.path = "expired"
    /\ Len(cacheFile.items) = 1
    /\ cacheFile.items[1][1] # KeyOf(res.req)
    /\ IsIso(cacheFile.items[1][2].timestamp)
    /\ Age(cacheFile.items[1][2]) > cacheCfg.ttl

-----------------------------------------------------------------------------
(* The cap of the history under appends at once, checked under SpecCapRace *)

\* C25: whatever the interleaving of the loads and saves of invocations
\* that run at once, on a history file that starts with at most
\* HISTORY_MAX entries, the file never holds more than HISTORY_MAX entries,
\* and every save leaves the entry it appends as the last one
C25_CapUnderRace ==
    /\ [](Len(historyFile.items) <= HISTORY_MAX)
    /\ [][historyFile' # historyFile =>
            /\ Len(historyFile'.items) <= HISTORY_MAX
            /\ historyFile'.items[Len(historyFile'.items)] =
                  appended'[Len(appended')]]_vars

\* C25 witness: two invocations read the full history before either wrote
\* to it, both have written, and the file holds HISTORY_MAX entries, the
\* append of one of them lost
C25_Witness ==
    /\ BothDone /\ BothDo("append") /\ SawSame
    /\ Len(inv[1].snapshot.items) = HISTORY_MAX
    /\ nAppends = 2
    /\ Len(historyFile.items) = HISTORY_MAX

====
